---- MODULE Spec2Model ----
(***************************************************************************)
(* Model of pyfda/input_widgets/amplitude_specs.py (class AmplitudeSpecs): *)
(* the pool of label / line-edit pairs that update_UI reconciles against   *)
(* a list of spec names, the focus / key event filter that commits or      *)
(* reverts an edit, and the unit selector.                                 *)
(*                                                                         *)
(* A handler is an operator from a world record (the object's fields, the  *)
(* filter dictionary fb.fil[0], the widgets' state and the outcome of the  *)
(* running handler) to the world after it.  A raised Python exception is   *)
(* the field `raised`: the statements after the raise are skipped.         *)
(***************************************************************************)
EXTENDS Integers, Sequences, FiniteSets, TLC

VARIABLES
    fil,              \* fb.fil[0]: [A: spec name -> linear value, amp_specs_unit, ft]
    qlabels,          \* self.qlabels: sequence of [text, visible]
    qlineedit,        \* self.qlineedit: sequence of [objectName, text, visible]
    n_cur_labels,     \* self.n_cur_labels
    spec_edited,      \* self.spec_edited
    cmbUnitsA,        \* self.cmbUnitsA.currentText()
    focus,            \* index of the line edit whose hasFocus() is true, 0 if none
    sigSpecsChanged,  \* emissions of sigSpecsChanged by the last event's handler
    sigUnitChanged,   \* emissions of sigUnitChanged by the last event's handler
    raised,           \* exception the last event's handler ended with, or "none"
    event,            \* the last event handled: [type, source]
    snap              \* what the focused field looked like around its FocusIn

vars == <<fil, qlabels, qlineedit, n_cur_labels, spec_edited, cmbUnitsA, focus,
          sigSpecsChanged, sigUnitChanged, raised, event, snap>>

----------------------------------------------------------------------------
(* Bounds of the exploration *)

MaxLabels == 3      \* longest new_labels list passed to update_UI
MaxLin == 2         \* linear values kept in the dictionary range over 1..MaxLin

----------------------------------------------------------------------------
(* The filter dictionary and the external helpers *)

\* keys of fb.fil[0] whose first character is 'A'
SpecNames == {"A_PB", "A_SB"}

amp_units == <<"dB", "V", "W">>

Units == {amp_units[k] : k \in 1..Len(amp_units)}

FilterTypes == {"IIR", "FIR"}

LinVals == 1..MaxLin

\* a QLineEdit's text: a numeral, an arithmetic expression, the empty string
\* or text that is no expression
Num(d) == [kind |-> "num", a |-> d, b |-> 0]

Sum(x, y) == [kind |-> "sum", a |-> x, b |-> y]

Empty == [kind |-> "empty", a |-> 0, b |-> 0]

Junk == [kind |-> "junk", a |-> 0, b |-> 0]

\* simple_eval(text) raises on text that is no expression
Parses(t) == t.kind \in {"num", "sum"}

simple_eval(t) == IF t.kind = "sum" THEN t.a + t.b ELSE t.a

\* str(x): the shortest numeral that reads back as x
str(x) == Num(x)

Abs(x) == IF x < 0 THEN -x ELSE x

\* number of significant digits params['FMT'] keeps ('{:.3g}' keeps 3; the
\* model's numbers are small integers)
FmtDigits == 1

RECURSIVE Pow10(_)
Pow10(k) == IF k = 0 THEN 1 ELSE 10 * Pow10(k - 1)

RECURSIVE RoundSig(_, _)
RoundSig(x, digits) ==
    IF Abs(x) < Pow10(digits) THEN x
    ELSE 10 * RoundSig((IF x < 0 THEN -1 ELSE 1) * ((Abs(x) + 5) \div 10), digits)

\* params['FMT'].format(x)
FMT(x) == Num(RoundSig(x, FmtDigits))

ISqrt(d) == CHOOSE r \in 0..Abs(d) : r * r <= Abs(d) /\ Abs(d) < (r + 1) * (r + 1)

\* "PB" in amp_label
IsPB(amp_label) == amp_label \in {"A_PB", "A_PB2"}

\* lin2unit(lin_value, filt_type, amp_label, unit): integer stand-ins for the
\* logarithmic laws of dB, one per (pass band IIR, pass band FIR, stop band),
\* rising with the ripple in the pass band and falling in the stop band; the
\* square for W; the value itself for V
lin2unit(lin_value, filt_type, amp_label, unit) ==
    IF unit = "dB" THEN
        IF IsPB(amp_label) THEN
            IF filt_type = "IIR" THEN lin_value + 1 ELSE 12 * lin_value - 10
        ELSE 26 - 12 * lin_value
    ELSE IF unit = "W" THEN lin_value * lin_value
    ELSE lin_value

\* unit2lin(unit_value, filt_type, amp_label, unit): the inverse laws
unit2lin(unit_value, filt_type, amp_label, unit) ==
    IF unit = "dB" THEN
        IF IsPB(amp_label) THEN
            IF filt_type = "IIR" THEN unit_value - 1 ELSE (unit_value + 10) \div 12
        ELSE (26 - unit_value) \div 12
    ELSE IF unit = "W" THEN ISqrt(unit_value)
    ELSE unit_value

\* rt_label(name): the rich-text label made from a name
rt_label(name) == <<"rt", name>>

----------------------------------------------------------------------------
(* The world record and exceptions *)

World == [fil |-> fil, qlabels |-> qlabels, qlineedit |-> qlineedit,
          n_cur_labels |-> n_cur_labels, spec_edited |-> spec_edited,
          cmbUnitsA |-> cmbUnitsA, focus |-> focus,
          sigSpecsChanged |-> 0, sigUnitChanged |-> 0, raised |-> "none"]

Raise(w, exc) == [w EXCEPT !.raised = exc]

\* fb.fil[0][key] raises KeyError when key is no key of the dictionary
HasKey(w, key) == key \in DOMAIN w.fil.A

----------------------------------------------------------------------------
(* load_entries *)

MinOf(S) == CHOOSE x \in S : \A y \in S : x <= y

\* the first line edit whose objectName is no key of fb.fil[0]: the lookup of
\* line 196 raises KeyError there; Len + 1 when every lookup succeeds
FirstMissingEntry(w) ==
    LET bad == {i \in 1..Len(w.qlineedit) : ~HasKey(w, w.qlineedit[i].objectName)}
    IN  IF bad = {} THEN Len(w.qlineedit) + 1 ELSE MinOf(bad)

\* EntryText with the test of hasFocus() inverted
EntryText_RoundsFocused(w, i) ==
    LET amp_label == w.qlineedit[i].objectName
        amp_value == lin2unit(w.fil.A[amp_label], w.fil.ft, amp_label,
                              w.fil.amp_specs_unit)
    IN  IF w.focus = i THEN FMT(amp_value) ELSE str(amp_value)

\* the text lines 195-203 put into line edit i
EntryText(w, i) ==
    LET unit == w.fil.amp_specs_unit
        filt_type == w.fil.ft
        amp_label == w.qlineedit[i].objectName
        amp_value == lin2unit(w.fil.A[amp_label], filt_type, amp_label, unit)
    IN  IF w.focus # i THEN FMT(amp_value) ELSE str(amp_value)

load_entries(w) ==
    LET k == FirstMissingEntry(w)
        le == [i \in 1..Len(w.qlineedit) |->
                 IF i < k THEN [w.qlineedit[i] EXCEPT !.text = EntryText(w, i)]
                 ELSE w.qlineedit[i]]
        w1 == [w EXCEPT !.qlineedit = le]
    IN  IF k <= Len(w.qlineedit) THEN Raise(w1, "KeyError") ELSE w1

----------------------------------------------------------------------------
(* _set_amp_unit and _store_entry *)

\* _set_amp_unit reloading the entries before it stores the unit
_set_amp_unit_LoadsFirst(w) ==
    LET w1 == load_entries(w)
    IN  IF w1.raised # "none" THEN w1
        ELSE [w1 EXCEPT !.fil.amp_specs_unit = w.cmbUnitsA,
                        !.sigUnitChanged = @ + 1]

_set_amp_unit(w) ==
    LET w1 == load_entries([w EXCEPT !.fil.amp_specs_unit = w.cmbUnitsA])
    IN  IF w1.raised # "none" THEN w1
        ELSE [w1 EXCEPT !.sigUnitChanged = @ + 1]

\* fb.fil[0].update({key: value}): sets the key, adding it when it is new
DictUpdate(A, key, value) ==
    [x \in DOMAIN A \cup {key} |-> IF x = key THEN value ELSE A[x]]

\* _store_entry without the reset of the flag (line 234)
_store_entry_KeepsFlag(w, source) ==
    IF w.spec_edited THEN
        LET amp_label == w.qlineedit[source].objectName
            text == w.qlineedit[source].text
        IN  IF ~Parses(text) THEN Raise(w, "ParseError")
            ELSE load_entries(
                   [w EXCEPT !.fil.A = DictUpdate(@, amp_label,
                                unit2lin(simple_eval(text), w.fil.ft, amp_label,
                                         w.cmbUnitsA)),
                             !.sigSpecsChanged = @ + 1])
    ELSE load_entries(w)

_store_entry(w, source) ==
    IF w.spec_edited THEN
        LET unit == w.cmbUnitsA
            filt_type == w.fil.ft
            amp_label == w.qlineedit[source].objectName
            text == w.qlineedit[source].text
        IN  IF ~Parses(text) THEN Raise(w, "ParseError")
            ELSE load_entries(
                   [w EXCEPT !.fil.A = DictUpdate(@, amp_label,
                                unit2lin(simple_eval(text), filt_type, amp_label, unit)),
                             !.sigSpecsChanged = @ + 1,
                             !.spec_edited = FALSE])
    ELSE load_entries(w)

----------------------------------------------------------------------------
(* update_UI, _hide_entries, _show_entries *)

_hide_entries(w, num_new_labels) ==
    [w EXCEPT
       !.qlabels = [i \in 1..Len(w.qlabels) |->
                      IF i > num_new_labels THEN [w.qlabels[i] EXCEPT !.visible = FALSE]
                      ELSE w.qlabels[i]],
       !.qlineedit = [i \in 1..Len(w.qlineedit) |->
                      IF i > num_new_labels /\ i <= Len(w.qlabels)
                      THEN [w.qlineedit[i] EXCEPT !.visible = FALSE]
                      ELSE w.qlineedit[i]]]

\* _show_entries appending a new widget for every label beyond the visible
\* ones, whether or not hidden widgets exist
_show_entries_AlwaysCreates(w, num_new_labels) ==
    [w EXCEPT
       !.qlabels = @ \o [i \in 1..(num_new_labels - w.n_cur_labels) |->
                           [text |-> rt_label("dummy"), visible |-> TRUE]],
       !.qlineedit = @ \o [i \in 1..(num_new_labels - w.n_cur_labels) |->
                           [objectName |-> "dummy", text |-> Empty,
                            visible |-> TRUE]]]

\* a widget put into the layout of the panel is shown with it
_show_entries(w, num_new_labels) ==
    LET num_tot_labels == Len(w.qlabels)
    IN  IF num_tot_labels < num_new_labels THEN
            [w EXCEPT
               !.qlabels = @ \o [i \in 1..(num_new_labels - num_tot_labels) |->
                                   [text |-> rt_label("dummy"), visible |-> TRUE]],
               !.qlineedit = @ \o [i \in 1..(num_new_labels - num_tot_labels) |->
                                   [objectName |-> "dummy", text |-> Empty,
                                    visible |-> TRUE]]]
        ELSE
            [w EXCEPT
               !.qlabels = [i \in 1..Len(w.qlabels) |->
                              IF i > w.n_cur_labels /\ i <= num_new_labels
                              THEN [w.qlabels[i] EXCEPT !.visible = TRUE]
                              ELSE w.qlabels[i]],
               !.qlineedit = [i \in 1..Len(w.qlineedit) |->
                              IF i > w.n_cur_labels /\ i <= num_new_labels
                              THEN [w.qlineedit[i] EXCEPT !.visible = TRUE]
                              ELSE w.qlineedit[i]]]

\* the first index at which fb.fil[0][new_labels[i]] of line 173 raises
\* KeyError; Len + 1 when every name is a key
FirstMissingLabel(w, new_labels) ==
    LET bad == {i \in 1..Len(new_labels) : ~HasKey(w, new_labels[i])}
    IN  IF bad = {} THEN Len(new_labels) + 1 ELSE MinOf(bad)

\* the loop of lines 169-174 with setObjectName (line 174) moved before the
\* lookup of line 173
UpdateLabels_BindsFirst(w, new_labels) ==
    LET k == FirstMissingLabel(w, new_labels)
        w1 == [w EXCEPT
                 !.qlabels = [i \in 1..Len(w.qlabels) |->
                                IF i <= k /\ i <= Len(new_labels)
                                THEN [w.qlabels[i] EXCEPT !.text = rt_label(new_labels[i])]
                                ELSE w.qlabels[i]],
                 !.qlineedit = [i \in 1..Len(w.qlineedit) |->
                                IF i < k /\ i <= Len(new_labels)
                                THEN [w.qlineedit[i] EXCEPT
                                        !.text = str(w.fil.A[new_labels[i]]),
                                        !.objectName = new_labels[i]]
                                ELSE IF i = k /\ i <= Len(new_labels)
                                THEN [w.qlineedit[i] EXCEPT !.objectName = new_labels[i]]
                                ELSE w.qlineedit[i]]]
    IN  IF k <= Len(new_labels) THEN Raise(w1, "KeyError") ELSE w1

\* the loop of lines 169-174 leaving a slot alone when the name asked for it
\* is the name asked for the slot before it
UpdateLabels_SkipsRepeated(w, new_labels) ==
    LET k == FirstMissingLabel(w, new_labels)
        fresh(i) == i = 1 \/ new_labels[i] # new_labels[i - 1]
        w1 == [w EXCEPT
                 !.qlabels = [i \in 1..Len(w.qlabels) |->
                                IF i <= k /\ i <= Len(new_labels) /\ fresh(i)
                                THEN [w.qlabels[i] EXCEPT !.text = rt_label(new_labels[i])]
                                ELSE w.qlabels[i]],
                 !.qlineedit = [i \in 1..Len(w.qlineedit) |->
                                IF i < k /\ i <= Len(new_labels) /\ fresh(i)
                                THEN [w.qlineedit[i] EXCEPT
                                        !.text = str(w.fil.A[new_labels[i]]),
                                        !.objectName = new_labels[i]]
                                ELSE w.qlineedit[i]]]
    IN  IF k <= Len(new_labels) THEN Raise(w1, "KeyError") ELSE w1

\* the loop of lines 169-174, up to the iteration that raises
UpdateLabels(w, new_labels) ==
    LET k == FirstMissingLabel(w, new_labels)
        w1 == [w EXCEPT
                 !.qlabels = [i \in 1..Len(w.qlabels) |->
                                IF i <= k /\ i <= Len(new_labels)
                                THEN [w.qlabels[i] EXCEPT !.text = rt_label(new_labels[i])]
                                ELSE w.qlabels[i]],
                 !.qlineedit = [i \in 1..Len(w.qlineedit) |->
                                IF i < k /\ i <= Len(new_labels)
                                THEN [w.qlineedit[i] EXCEPT
                                        !.text = str(w.fil.A[new_labels[i]]),
                                        !.objectName = new_labels[i]]
                                ELSE w.qlineedit[i]]]
    IN  IF k <= Len(new_labels) THEN Raise(w1, "KeyError") ELSE w1

\* update_UI reloading the entries only when the number of labels changed
update_UI_LoadsOnlyOnResize(w, new_labels) ==
    LET num_new_labels == Len(new_labels)
        w1 == IF num_new_labels < w.n_cur_labels THEN _hide_entries(w, num_new_labels)
              ELSE IF num_new_labels > w.n_cur_labels THEN _show_entries(w, num_new_labels)
              ELSE w
        w2 == UpdateLabels(w1, new_labels)
        w3 == [w2 EXCEPT !.n_cur_labels = num_new_labels]
    IN  IF w2.raised # "none" THEN w2
        ELSE IF num_new_labels # w.n_cur_labels THEN load_entries(w3)
        ELSE w3

update_UI(w, new_labels) ==
    LET num_new_labels == Len(new_labels)
        w1 == IF num_new_labels < w.n_cur_labels THEN _hide_entries(w, num_new_labels)
              ELSE IF num_new_labels > w.n_cur_labels THEN _show_entries(w, num_new_labels)
              ELSE w
        w2 == UpdateLabels(w1, new_labels)
    IN  IF w2.raised # "none" THEN w2
        ELSE load_entries([w2 EXCEPT !.n_cur_labels = num_new_labels])

----------------------------------------------------------------------------
(* eventFilter *)

AcceptKeys == {"Key_Return", "Key_Enter"}

\* eventFilter without the reset of the flag on FocusIn (line 130)
eventFilter_FocusInKeepsFlag(w, source, type, key) ==
    IF type = "FocusIn" THEN load_entries(w)
    ELSE IF type = "KeyPress" THEN
        LET w1 == [w EXCEPT !.spec_edited = TRUE]
        IN  IF key \in AcceptKeys THEN _store_entry(w1, source)
            ELSE IF key = "Key_Escape" THEN
                load_entries([w1 EXCEPT !.spec_edited = FALSE])
            ELSE w1
    ELSE IF type = "FocusOut" THEN _store_entry(w, source)
    ELSE w

\* eventFilter storing the entry on Escape as on Return
eventFilter_EscapeStores(w, source, type, key) ==
    IF type = "FocusIn" THEN
        load_entries([w EXCEPT !.spec_edited = FALSE])
    ELSE IF type = "KeyPress" THEN
        LET w1 == [w EXCEPT !.spec_edited = TRUE]
        IN  IF key \in AcceptKeys \cup {"Key_Escape"} THEN _store_entry(w1, source)
            ELSE w1
    ELSE IF type = "FocusOut" THEN _store_entry(w, source)
    ELSE w

\* eventFilter resetting the flag on Escape without reloading the entries
eventFilter_EscapeKeepsText(w, source, type, key) ==
    IF type = "FocusIn" THEN
        load_entries([w EXCEPT !.spec_edited = FALSE])
    ELSE IF type = "KeyPress" THEN
        LET w1 == [w EXCEPT !.spec_edited = TRUE]
        IN  IF key \in AcceptKeys THEN _store_entry(w1, source)
            ELSE IF key = "Key_Escape" THEN [w1 EXCEPT !.spec_edited = FALSE]
            ELSE w1
    ELSE IF type = "FocusOut" THEN _store_entry(w, source)
    ELSE w

eventFilter(w, source, type, key) ==
    IF type = "FocusIn" THEN
        load_entries([w EXCEPT !.spec_edited = FALSE])
    ELSE IF type = "KeyPress" THEN
        LET w1 == [w EXCEPT !.spec_edited = TRUE]
        IN  IF key \in AcceptKeys THEN _store_entry(w1, source)
            ELSE IF key = "Key_Escape" THEN
                load_entries([w1 EXCEPT !.spec_edited = FALSE])
            ELSE w1
    ELSE IF type = "FocusOut" THEN _store_entry(w, source)
    ELSE w

----------------------------------------------------------------------------
(* Construction *)

\* cmbUnitsA after addItems(amp_units): each item has a text and no user data
cmbItems == [k \in 1..Len(amp_units) |-> [text |-> amp_units[k], data |-> "none"]]

\* QComboBox.findData: the 0-based index of the first item with this user
\* data, -1 when there is none
findData(data) ==
    LET hit == {k \in 1..Len(cmbItems) : cmbItems[k].data = data}
    IN  IF hit = {} THEN -1 ELSE MinOf(hit) - 1

\* lines 75-78: the unit selector's entry after construction
InitialUnitText(amp_specs_unit) ==
    LET amp_idx == findData(amp_specs_unit)
    IN  cmbItems[(IF amp_idx < 0 THEN 0 ELSE amp_idx) + 1].text

\* the orders in which `for l in fb.fil[0]` can yield the keys S
Orderings(S) ==
    {q \in [1..Cardinality(S) -> S] : \A i, j \in 1..Cardinality(S) : i # j => q[i] # q[j]}

\* __init__ and _construct_UI on a dictionary with these entries
_construct_UI(A, amp_specs_unit, ft, new_labels) ==
    update_UI([fil |-> [A |-> A, amp_specs_unit |-> amp_specs_unit, ft |-> ft],
               qlabels |-> <<>>, qlineedit |-> <<>>, n_cur_labels |-> 0,
               spec_edited |-> FALSE,
               cmbUnitsA |-> InitialUnitText(amp_specs_unit), focus |-> 0,
               sigSpecsChanged |-> 0, sigUnitChanged |-> 0, raised |-> "none"],
              new_labels)

NoSnap == [source |-> 0, before |-> Empty, after |-> Empty, A |-> <<>>, keys |-> FALSE]

Ev(type, key, arg) == [type |-> type, key |-> key, arg |-> arg]

Init ==
    \E A \in [SpecNames -> LinVals], u \in Units, ft \in FilterTypes,
       new_labels \in Orderings(SpecNames) :
        LET w == _construct_UI(A, u, ft, new_labels)
        IN  /\ fil = w.fil
            /\ qlabels = w.qlabels
            /\ qlineedit = w.qlineedit
            /\ n_cur_labels = w.n_cur_labels
            /\ spec_edited = w.spec_edited
            /\ cmbUnitsA = w.cmbUnitsA
            /\ focus = w.focus
            /\ sigSpecsChanged = w.sigSpecsChanged
            /\ sigUnitChanged = w.sigUnitChanged
            /\ raised = w.raised
            /\ event = Ev("__init__", "none", new_labels)
            /\ snap = NoSnap

----------------------------------------------------------------------------
(* Events *)

\* the exploration keeps the dictionary's linear values within 1..MaxLin
InRange(w) == \A x \in DOMAIN w.fil.A : w.fil.A[x] \in LinVals

Apply(w, ev, sn) ==
    /\ InRange(w)
    /\ fil' = w.fil
    /\ qlabels' = w.qlabels
    /\ qlineedit' = w.qlineedit
    /\ n_cur_labels' = w.n_cur_labels
    /\ spec_edited' = w.spec_edited
    /\ cmbUnitsA' = w.cmbUnitsA
    /\ focus' = w.focus
    /\ sigSpecsChanged' = w.sigSpecsChanged
    /\ sigUnitChanged' = w.sigUnitChanged
    /\ raised' = w.raised
    /\ event' = ev
    /\ snap' = sn

\* what the user can make of a field's text with one key
TypedTexts == {Sum(1, 1), Junk}

\* a visible line edit gains the input focus
FocusIn(i) ==
    /\ focus = 0
    /\ i \in 1..Len(qlineedit)
    /\ qlineedit[i].visible
    /\ LET w == eventFilter([World EXCEPT !.focus = i], i, "FocusIn", "none")
       IN  Apply(w, Ev("FocusIn", "none", <<>>),
                 [source |-> i, before |-> qlineedit[i].text,
                  after |-> w.qlineedit[i].text, A |-> fil.A, keys |-> FALSE])

\* the focused line edit loses the input focus
FocusOut(i) ==
    /\ focus = i
    /\ i \in 1..Len(qlineedit)
    /\ Apply(eventFilter([World EXCEPT !.focus = 0], i, "FocusOut", "none"),
             Ev("FocusOut", "none", <<>>), NoSnap)

\* Return or Enter in the focused line edit
KeyAccept(i, key) ==
    /\ focus = i
    /\ i \in 1..Len(qlineedit)
    /\ key \in AcceptKeys
    /\ Apply(eventFilter(World, i, "KeyPress", key), Ev("KeyPress", "accept", <<>>), NoSnap)

\* Escape in the focused line edit
KeyEscape(i) ==
    /\ focus = i
    /\ i \in 1..Len(qlineedit)
    /\ Apply(eventFilter(World, i, "KeyPress", "Key_Escape"),
             Ev("KeyPress", "Key_Escape", <<>>), IF snap.keys THEN snap ELSE NoSnap)

\* any other key in the focused line edit: the filter passes the event on and
\* the line edit makes its text t
KeyOther(i, t) ==
    /\ focus = i
    /\ i \in 1..Len(qlineedit)
    /\ t \in TypedTexts
    /\ LET w == eventFilter(World, i, "KeyPress", "Key_Other")
       IN  Apply([w EXCEPT !.qlineedit[i].text = t],
                 Ev("KeyPress", "Key_Other", <<>>), [snap EXCEPT !.keys = TRUE])

\* lists of at most MaxLabels names drawn from S
LabelLists(S) == UNION {[1..n -> S] : n \in 0..MaxLabels}

\* update_UI(new_labels).  A line edit that update_UI is about to hide does
\* not hold the focus: Qt takes the focus from a widget before hiding it, and
\* that is the event FocusOut.
Reconcile(new_labels) ==
    /\ ~(Len(new_labels) < n_cur_labels /\ focus > Len(new_labels))
    /\ Apply(update_UI(World, new_labels),
             Ev("update_UI", "none", new_labels),
             NoSnap)

\* the user picks another entry of the unit selector: currentIndexChanged
\* (line 104) calls _set_amp_unit
SetUnit(u) ==
    /\ u \in Units
    /\ u # cmbUnitsA
    /\ Apply(_set_amp_unit([World EXCEPT !.cmbUnitsA = u]),
             Ev("_set_amp_unit", "none", <<u>>), NoSnap)

Next ==
    \/ \E i \in 1..MaxLabels : FocusIn(i)
    \/ \E i \in 1..MaxLabels : FocusOut(i)
    \/ \E i \in 1..MaxLabels, key \in AcceptKeys : KeyAccept(i, key)
    \/ \E i \in 1..MaxLabels : KeyEscape(i)
    \/ \E i \in 1..MaxLabels, t \in TypedTexts :
          KeyOther(i, t)
    \/ \E new_labels \in LabelLists(SpecNames) : Reconcile(new_labels)
    \/ \E u \in Units : SetUnit(u)

Spec == Init /\ [][Next]_vars

----------------------------------------------------------------------------
(* A caller that passes update_UI a name that is no key of fb.fil[0] *)

\* a name with first character 'A' that is no key of the dictionary
UnknownName == "A_XX"

\* update_UI(new_labels) with the unknown name in the list: the lookup of
\* line 173 raises KeyError.  The loop never reads the names after the first
\* unknown one, so one list stands for every list with the same names up to it
\* and the same length.
ReconcileUnknown(new_labels) ==
    /\ \E p \in 1..Len(new_labels) :
          \A i \in 1..Len(new_labels) :
              IF i < p THEN new_labels[i] \in SpecNames ELSE new_labels[i] = UnknownName
    /\ Reconcile(new_labels)

\* the events of a session in which the user moves the focus and switches the
\* unit, but presses no key
NextUnknown ==
    \/ \E i \in 1..MaxLabels : FocusIn(i)
    \/ \E i \in 1..MaxLabels : FocusOut(i)
    \/ \E new_labels \in LabelLists(SpecNames) : Reconcile(new_labels)
    \/ \E u \in Units : SetUnit(u)
    \/ \E new_labels \in LabelLists(SpecNames \cup {UnknownName}) :
          ReconcileUnknown(new_labels)

\* the panel constructed on one dictionary: every amplitude 1, unit dB
InitUnknown ==
    LET w == _construct_UI([x \in SpecNames |-> 1], "dB", "IIR", <<"A_PB", "A_SB">>)
    IN  /\ fil = w.fil
        /\ qlabels = w.qlabels
        /\ qlineedit = w.qlineedit
        /\ n_cur_labels = w.n_cur_labels
        /\ spec_edited = w.spec_edited
        /\ cmbUnitsA = w.cmbUnitsA
        /\ focus = w.focus
        /\ sigSpecsChanged = w.sigSpecsChanged
        /\ sigUnitChanged = w.sigUnitChanged
        /\ raised = w.raised
        /\ event = Ev("__init__", "none", <<"A_PB", "A_SB">>)
        /\ snap = NoSnap

SpecUnknown == InitUnknown /\ [][NextUnknown]_vars

----------------------------------------------------------------------------
(* Vocabulary of the properties *)

IsFocusIn(e) == e.type = "FocusIn"

IsFocusOut(e) == e.type = "FocusOut"

IsAccept(e) == e.type = "KeyPress" /\ e.key = "accept"

IsEscape(e) == e.type = "KeyPress" /\ e.key = "Key_Escape"

IsOtherKey(e) == e.type = "KeyPress" /\ e.key = "Key_Other"

IsReconcile(e) == e.type = "update_UI"

IsSetUnit(e) == e.type = "_set_amp_unit"

Slots == 1..Len(qlineedit)

\* the display value of the name bound to slot i, in the dictionary's unit
DisplayValue(i) ==
    lin2unit(fil.A[qlineedit[i].objectName], fil.ft, qlineedit[i].objectName,
             fil.amp_specs_unit)

\* every field shows its stored value: full precision with focus, rounded without
AllRendered ==
    \A i \in Slots :
        /\ qlineedit[i].objectName \in DOMAIN fil.A
        /\ qlineedit[i].text = IF focus = i THEN str(DisplayValue(i))
                               ELSE FMT(DisplayValue(i))

\* the linear value a commit of slot i's text stores when it converts with unit u
Committed(i, u) ==
    unit2lin(simple_eval(qlineedit[i].text), fil.ft, qlineedit[i].objectName, u)

----------------------------------------------------------------------------
(* C1: only a commit changes spec values in the store.  A step that handles
   focus-gain, a key that is not the accept key, escape, focus-loss while
   spec_edited is false, update_UI or _set_amp_unit leaves every
   name -> linear value entry of fb.fil[0] as it was. *)
C1_NonCommitEvent ==
    \/ IsFocusIn(event') \/ IsOtherKey(event') \/ IsEscape(event')
    \/ IsReconcile(event') \/ IsSetUnit(event')
    \/ (IsFocusOut(event') /\ ~spec_edited)

C1_OnlyCommitWritesStore == [][C1_NonCommitEvent => fil'.A = fil.A]_vars

\* an edit is pending whose commit would change the stored value
C1_Witness ==
    /\ IsOtherKey(event) /\ spec_edited /\ focus \in Slots
    /\ Parses(qlineedit[focus].text)
    /\ Committed(focus, cmbUnitsA) # fil.A[qlineedit[focus].objectName]

(* C2: a successful commit of the focused field, by the accept key or by
   focus-loss while edited, stores toLinear(d, ft, name, unit) under the
   field's name, d the parsed text and unit the dictionary's amp_specs_unit;
   every other entry is as before and spec_edited is false. *)
C2_CommitStep ==
    /\ focus \in Slots
    /\ IsAccept(event') \/ IsFocusOut(event')
    /\ sigSpecsChanged' = 1

C2_CommitStoresInDisplayedUnit ==
    [][C2_CommitStep =>
         /\ fil'.A = DictUpdate(fil.A, qlineedit[focus].objectName,
                                Committed(focus, fil.amp_specs_unit))
         /\ ~spec_edited']_vars

(* C3: a commit attempted on text that simple_eval rejects is recovered in
   place: no entry changes, sigSpecsChanged is not emitted, no exception
   leaves the handler, spec_edited becomes false and every field is rendered
   from the stored values. *)
C3_RejectedCommitStep ==
    /\ focus \in Slots
    /\ IsAccept(event') \/ (IsFocusOut(event') /\ spec_edited)
    /\ ~Parses(qlineedit[focus].text)

C3_ParseFailureRecovered ==
    [][C3_RejectedCommitStep =>
         /\ fil'.A = fil.A
         /\ sigSpecsChanged' = 0
         /\ raised' = "none"
         /\ ~spec_edited'
         /\ AllRendered']_vars

(* C4 as stated: after focus-in, one or more keys and escape, the field's
   stored value and its text are what they were just before the focus-in. *)
C4_Reverted == IsEscape(event) /\ snap.source \in Slots /\ snap.keys

C4_RevertRestoresTextBeforeFocusIn ==
    C4_Reverted =>
        /\ fil.A = snap.A
        /\ qlineedit[snap.source].text = snap.before

(* C4 amended: after focus-in, one or more keys and escape, the stored
   values are what they were before the focus-in and the field's text is the
   full-precision text the focus-in put there. *)
C4_RevertRestoresFocusedText ==
    C4_Reverted =>
        /\ fil.A = snap.A
        /\ qlineedit[snap.source].text = snap.after
        /\ qlineedit[snap.source].text = str(DisplayValue(snap.source))

\* a revert of a field whose rounded text differed from its full-precision text
C4_Witness == C4_Reverted /\ snap.before # snap.after /\ snap.before.kind = "num"

(* C5: after every update_UI(new_labels) that ends without an exception,
   exactly the first len(new_labels) slots are shown, every later slot is
   hidden, and n_cur_labels = len(new_labels). *)
ShownExactlyFirst(n) ==
    \A i \in Slots : (qlineedit[i].visible /\ qlabels[i].visible) <=> i <= n

C5_ReconcileShowsPrefix ==
    (IsReconcile(event) /\ raised = "none") =>
        /\ n_cur_labels = Len(event.arg)
        /\ ShownExactlyFirst(Len(event.arg))

(* C6: update_UI(new_labels) called twice in a row with the same list: the
   second call leaves the number of slots, each slot's visibility, name,
   label and text, and n_cur_labels as the first call left them. *)
C6_ReconcileIdempotent ==
    [][(IsReconcile(event) /\ IsReconcile(event') /\ event'.arg = event.arg) =>
         /\ qlabels' = qlabels
         /\ qlineedit' = qlineedit
         /\ n_cur_labels' = n_cur_labels]_vars

\* update_UI has run with a non-empty list shorter than the number of slots,
\* and the call with the same list can be made again
C6_Witness ==
    /\ IsReconcile(event)
    /\ Len(event.arg) > 0 /\ Len(event.arg) < Len(qlineedit)
    /\ ENABLED Reconcile(event.arg)

(* C7: slots are reused.  No step removes a slot; update_UI(new_labels) adds
   exactly max(0, len(new_labels) - number of slots) slots; n_cur_labels never
   exceeds the number of slots; and after update_UI every shown slot is one of
   the first len(new_labels), is bound to the name requested for it and shows
   that name's stored value. *)
Max(x, y) == IF x >= y THEN x ELSE y

C7_ShownSlotsBound ==
    \A i \in Slots :
        qlineedit[i].visible =>
            /\ i <= Len(event.arg)
            /\ qlineedit[i].objectName = event.arg[i]
            /\ qlabels[i].text = rt_label(event.arg[i])
            /\ qlineedit[i].text = IF focus = i THEN str(DisplayValue(i))
                                   ELSE FMT(DisplayValue(i))

C7_SlotsReused ==
    [][/\ Len(qlineedit') >= Len(qlineedit)
       /\ Len(qlabels') = Len(qlineedit')
       /\ n_cur_labels' <= Len(qlineedit')
       /\ IsReconcile(event') =>
            /\ Len(qlineedit') = Max(Len(qlineedit), Len(event'.arg))
            /\ raised' = "none"
            /\ C7_ShownSlotsBound']_vars

\* a hidden slot was revealed under a name other than the one it held
C7_Witness ==
    /\ IsReconcile(event) /\ Len(event.arg) = MaxLabels
    /\ n_cur_labels = MaxLabels
    /\ \A i \in Slots : qlineedit[i].visible
    /\ qlineedit[MaxLabels].objectName # qlineedit[1].objectName

(* C8: precision policy.  Whenever load_entries has run to its end (after
   construction, focus-gain, a commit, escape, focus-loss, update_UI,
   _set_amp_unit), the field with the focus shows the full-precision text of
   lin2unit(stored value) and every other field the rounded text of it; and
   focus-gain followed at once by focus-loss leaves fb.fil[0] as it was, the
   field going from the full-precision back to the rounded text. *)
C8_RenderRan == raised = "none" /\ ~IsOtherKey(event)

C8_PrecisionPolicy ==
    /\ [](C8_RenderRan => AllRendered)
    /\ [][(IsFocusIn(event) /\ IsFocusOut(event')) =>
            /\ fil' = fil
            /\ C8_RenderRan'
            /\ \A i \in Slots : qlineedit'[i].text = FMT(DisplayValue(i))]_vars

\* the focused field shows a full-precision text that the rounded format changes
C8_Witness ==
    /\ C8_RenderRan /\ focus \in Slots
    /\ qlineedit[focus].text = str(DisplayValue(focus))
    /\ str(DisplayValue(focus)) # FMT(DisplayValue(focus))

(* C9: _set_amp_unit after the user picked unit u writes u into
   fb.fil[0]['amp_specs_unit'], renders every field in u, emits
   sigUnitChanged once and sigSpecsChanged never, and raises nothing. *)
C9_SetUnit ==
    IsSetUnit(event) =>
        /\ fil.amp_specs_unit = event.arg[1]
        /\ cmbUnitsA = event.arg[1]
        /\ AllRendered
        /\ sigUnitChanged = 1
        /\ sigSpecsChanged = 0
        /\ raised = "none"

\* the unit was switched to W while a shown field held the focus
C9_Witness ==
    /\ IsSetUnit(event) /\ event.arg = <<"W">> /\ focus \in Slots
    /\ \E i \in Slots : qlineedit[i].visible /\ fil.A[qlineedit[i].objectName] > 1

(* C10: sigSpecsChanged is emitted once by a successful commit (the accept
   key, or focus-loss while edited, on text that parses) and by no other
   event; the store changes only when it is emitted; and focus-loss right
   after a successful accept key emits nothing and writes nothing. *)
C10_SuccessfulCommit ==
    /\ focus \in Slots
    /\ IsAccept(event') \/ (IsFocusOut(event') /\ spec_edited)
    /\ Parses(qlineedit[focus].text)

C10_SpecsChangedOncePerCommit ==
    [][/\ sigSpecsChanged' = IF C10_SuccessfulCommit THEN 1 ELSE 0
       /\ fil'.A # fil.A => sigSpecsChanged' = 1
       /\ (IsAccept(event) /\ sigSpecsChanged = 1 /\ IsFocusOut(event')) =>
            (sigSpecsChanged' = 0 /\ fil' = fil)]_vars

\* the accept key has committed the focused field's text
C10_Witness ==
    /\ IsAccept(event) /\ sigSpecsChanged = 1 /\ raised = "none"
    /\ focus \in Slots /\ ~spec_edited

(* C11: after update_UI(new_labels) that ends without an exception, slot i
   is bound to new_labels[i] and labelled from it, for every i up to
   len(new_labels), in the order given and with repeated names kept; and
   update_UI([]) leaves every slot hidden and raises nothing. *)
C11_ReconcileBindsInOrder ==
    (IsReconcile(event) /\ raised = "none") =>
        /\ Len(event.arg) <= Len(qlineedit)
        /\ \A i \in 1..Len(event.arg) :
              /\ qlineedit[i].objectName = event.arg[i]
              /\ qlabels[i].text = rt_label(event.arg[i])

C11_EmptyHidesAll ==
    (IsReconcile(event) /\ event.arg = <<>>) =>
        /\ raised = "none"
        /\ n_cur_labels = 0
        /\ \A i \in Slots : ~qlineedit[i].visible /\ ~qlabels[i].visible

C11_BindingOrder == C11_ReconcileBindsInOrder /\ C11_EmptyHidesAll

\* update_UI has bound a list that is not sorted and names A_SB twice in a row
C11_Witness ==
    /\ IsReconcile(event) /\ raised = "none"
    /\ event.arg = <<"A_SB", "A_SB", "A_PB">>
    /\ qlineedit[2].objectName = "A_SB" /\ qlineedit[3].objectName = "A_PB"

(* C12: update_UI(new_labels) with a name that is no key of fb.fil[0] ends
   with KeyError raised to its caller, and no line edit renders a value for
   that name: none is bound to it, in that state or any other, and the line
   edit at the index of the name keeps the objectName and the text it had (a
   line edit created by this call keeps "dummy" and the empty text). *)
C12_FirstUnknown(new_labels) ==
    MinOf({i \in 1..Len(new_labels) : new_labels[i] = UnknownName})

C12_UnknownCall(e) ==
    IsReconcile(e) /\ \E i \in 1..Len(e.arg) : e.arg[i] = UnknownName

C12_FailingSlotUntouched ==
    LET k == C12_FirstUnknown(event'.arg)
    IN  /\ k <= Len(qlineedit')
        /\ qlineedit'[k].objectName =
              IF k <= Len(qlineedit) THEN qlineedit[k].objectName ELSE "dummy"
        /\ qlineedit'[k].text =
              IF k <= Len(qlineedit) THEN qlineedit[k].text ELSE Empty

C12_UnknownNamePropagates ==
    /\ [](\A i \in Slots : qlineedit[i].objectName # UnknownName)
    /\ [][C12_UnknownCall(event') =>
            /\ raised' = "KeyError"
            /\ fil' = fil
            /\ C12_FailingSlotUntouched]_vars

\* update_UI failed on the unknown name at a shown slot that held a value
C12_Witness ==
    /\ C12_UnknownCall(event) /\ raised = "KeyError"
    /\ LET k == C12_FirstUnknown(event.arg)
       IN  /\ qlineedit[k].visible
           /\ qlineedit[k].objectName \in SpecNames
           /\ qlineedit[k].text.kind = "num"

(* C13: spec_edited is true only between a key press and the next commit
   attempt, revert or focus-loss: after the accept key, Escape or FocusOut has
   been handled spec_edited is false, and in every state spec_edited implies
   that some line edit has the focus. *)
C13_DirtyOnlyWhileFocused ==
    /\ (IsAccept(event) \/ IsEscape(event) \/ IsFocusOut(event)) => ~spec_edited
    /\ spec_edited => focus \in Slots

(* C14: fb.fil[0] is written and sigSpecsChanged is emitted only by a commit
   taken while spec_edited is true.  While a line edit has the focus and
   spec_edited is false, no event changes an entry of fb.fil[0] or emits
   sigSpecsChanged, and the first key pressed only sets spec_edited. *)
C14_Focused == focus \in Slots /\ ~spec_edited

C14_WritesOnlyFromDirty ==
    [][/\ (fil'.A # fil.A \/ sigSpecsChanged' > 0) => spec_edited
       /\ C14_Focused => (fil'.A = fil.A /\ sigSpecsChanged' = 0)
       /\ (C14_Focused /\ IsOtherKey(event')) => (spec_edited' /\ fil' = fil)]_vars

(* C15: the render step run by update_UI, _set_amp_unit and the focus events
   looks up only the names of the shown line edits: when the name of every
   shown line edit is a key of fb.fil[0] the handler raises nothing, and a
   line edit that is hidden before and after the handler keeps its text. *)
C15_RenderingEvent(e) ==
    \/ IsFocusIn(e) \/ IsFocusOut(e) \/ IsSetUnit(e)
    \/ (IsReconcile(e) /\ ~C12_UnknownCall(e))

C15_ShownNamesKnown ==
    \A i \in Slots : qlineedit[i].visible => qlineedit[i].objectName \in DOMAIN fil.A

C15_RenderReadsShownOnly ==
    [][C15_RenderingEvent(event') =>
         /\ C15_ShownNamesKnown' => raised' = "none"
         /\ \A i \in Slots :
               (~qlineedit[i].visible /\ ~qlineedit'[i].visible /\ ~IsReconcile(event'))
                   => qlineedit'[i].text = qlineedit[i].text]_vars

(* C16: the one flag spec_edited acts as a flag per line edit.  FocusIn on
   any line edit leaves spec_edited false and writes nothing; spec_edited
   becomes true only by a key pressed in the line edit that has the focus and
   is never carried to another line edit; and fb.fil[0] is written, or
   sigSpecsChanged emitted, only by the accept key or an edited FocusOut of
   the focused line edit, under that line edit's name and from its text. *)
C16_SingleFlagActsPerField ==
    [][/\ IsFocusIn(event') =>
            (~spec_edited' /\ fil' = fil /\ sigSpecsChanged' = 0)
       /\ (spec_edited' /\ ~spec_edited) =>
            (event'.type = "KeyPress" /\ focus \in Slots /\ focus' = focus)
       /\ (spec_edited /\ spec_edited') => focus' \in {focus, 0}
       /\ (fil'.A # fil.A \/ sigSpecsChanged' > 0) =>
            /\ focus \in Slots
            /\ IsAccept(event') \/ (IsFocusOut(event') /\ spec_edited)
            /\ fil'.A = DictUpdate(fil.A, qlineedit[focus].objectName,
                                   Committed(focus, cmbUnitsA))]_vars

\* an edit of the first line edit is still pending after its focus-loss, and
\* the second line edit can take the focus
C16_Witness ==
    /\ spec_edited /\ focus = 0
    /\ qlineedit[1].text = Junk
    /\ ENABLED FocusIn(2)

(* C17: in every state, from construction on a dictionary with any of the
   three units, the unit _store_entry converts with (the current text of
   cmbUnitsA) is the unit load_entries converts with
   (fb.fil[0]['amp_specs_unit']). *)
C17_CommitUnitIsRenderUnit == cmbUnitsA = fil.amp_specs_unit

(* C18: update_UI failing on an unknown name leaves the slots consistent:
   n_cur_labels is the number of shown slots and the shown slots are exactly
   the first n_cur_labels ones; and every later update_UI(new_labels) that
   succeeds shows exactly the first len(new_labels) slots. *)
C18_ShownCount == Cardinality({i \in Slots : qlineedit[i].visible})

C18_FailedReconcileConsistent ==
    /\ (C12_UnknownCall(event) /\ raised = "KeyError") =>
          /\ C18_ShownCount = n_cur_labels
          /\ ShownExactlyFirst(n_cur_labels)
    /\ (IsReconcile(event) /\ raised = "none") =>
          ShownExactlyFirst(Len(event.arg))

====
